---------------------------- MODULE Spec2Model ----------------------------
(***************************************************************************)
(* Blended Distillation Profile Builder (src/profile_builder.py).          *)
(*                                                                         *)
(* Floats are fixed-point integers: the float v is the integer v * Scale.  *)
(* A DataFrame column is a sequence; a DataFrame is a record of columns    *)
(* (a profile, read row by row, is a sequence of rows).  In a column that  *)
(* may hold NaN, NaN is the empty tuple << >> and a present v is <<v>>.    *)
(*                                                                         *)
(* Spec is the builder as its callers use it (the constructor, then run    *)
(* statement by statement); SpecMain is the command-line prompt loop up to *)
(* the construction of the builder.  extract_profiles_from_web only        *)
(* rewrites the file store; the store's content is the profile that        *)
(* load_processed_profile returns, chosen when it is called.               *)
(***************************************************************************)
EXTENDS Integers, Sequences, FiniteSets

\* Resolution of the fixed-point floats (float64 columns): one unit is 1/Scale.
Scale == 600

\* ------------------------------------------------------------------ bounds
\* Largest whole temperature (degrees) an observation row may carry.
MaxTemp == 3
\* Largest number of rows of a cleaned profile.
MaxRows == 3

\* ----------------------------------------------------------------- helpers
NaN == << >>
Num(v) == <<v>>

Range(s) == {s[i] : i \in DOMAIN s}

SetMin(S) == CHOOSE m \in S : \A x \in S : m <= x
SetMax(S) == CHOOSE m \in S : \A x \in S : m >= x

Abs(a) == IF a < 0 THEN -a ELSE a
Sign(a) == IF a > 0 THEN 1 ELSE IF a < 0 THEN -1 ELSE 0

\* float * float and float / float in fixed point (rounded down)
Mul(a, b) == (a * b) \div Scale
Div(a, b) == (a * Scale) \div b

\* math.ceil / math.floor of a float, as whole numbers
Ceil(v) == -((-v) \div Scale)
Floor(v) == v \div Scale

\* np.arange(lo, hi, 1): lo, lo+1, ..., hi-1 (empty when hi <= lo)
Arange(lo, hi) == [i \in 1..(IF hi > lo THEN hi - lo ELSE 0) |-> lo + i - 1]

Column(df, name) == [i \in DOMAIN df |-> df[i][name]]

StrictlyIncreasing(s) == \A i \in 1..(Len(s) - 1) : s[i] < s[i + 1]

\* --------------------------------------------------- scipy.interpolate.pchip
\* a faulty variant of PchipRaises: a single point is accepted
PchipAcceptsOnePoint(x) == Len(x) < 1 \/ ~StrictlyIncreasing(x)

\* pchip(x, y) raises ValueError unless x has at least 2 elements and is
\* strictly increasing.
PchipRaises(x) == Len(x) < 2 \/ ~StrictlyIncreasing(x)

\* slope of interval k (between points k and k+1), a float
Slope(x, y, k) == Div(y[k + 1] - y[k], x[k + 1] - x[k])

\* PchipInterpolator._edge_case(h0, h1, m0, m1): one-sided three-point
\* estimate at an end point; k0 is the end interval, k1 its neighbour.
EdgeCase(x, y, k0, k1) ==
    LET h0 == x[k0 + 1] - x[k0]
        h1 == x[k1 + 1] - x[k1]
        m0 == Slope(x, y, k0)
        m1 == Slope(x, y, k1)
        d  == Mul(Div(2 * h0 + h1, h0 + h1), m0) - Mul(Div(h0, h0 + h1), m1)
    IN  IF Sign(d) # Sign(m0) THEN 0
        ELSE IF Sign(m0) # Sign(m1) /\ Abs(d) > 3 * Abs(m0) THEN 3 * m0
        ELSE d

\* PchipInterpolator._find_derivatives: derivative at point k (1..Len(x))
Derivative(x, y, k) ==
    LET n == Len(x)
    IN  IF n = 2 THEN Slope(x, y, 1)
        ELSE IF k = 1 THEN EdgeCase(x, y, 1, 2)
        ELSE IF k = n THEN EdgeCase(x, y, n - 1, n - 2)
        ELSE
          LET hkm == x[k] - x[k - 1]
              hk  == x[k + 1] - x[k]
              mkm == Slope(x, y, k - 1)
              mk  == Slope(x, y, k)
              w1  == 2 * hk + hkm
              w2  == hk + 2 * hkm
          IN  IF Sign(mkm) # Sign(mk) \/ mkm = 0 \/ mk = 0 THEN 0
              ELSE Div(w1 + w2, Div(w1, mkm) + Div(w2, mk))

\* index of the polynomial piece used for q: the interval holding q, the
\* first piece left of x[1] and the last piece right of x[n] (extrapolate)
Piece(x, q) ==
    IF q < x[1] THEN 1
    ELSE IF q >= x[Len(x)] THEN Len(x) - 1
    ELSE CHOOSE k \in 1..(Len(x) - 1) : x[k] <= q /\ q < x[k + 1]

\* the derivatives at all points, as pchip(x, y) computes them once
Derivatives(x, y) == [k \in DOMAIN x |-> Derivative(x, y, k)]

\* the cubic Hermite piece k of the interpolant (x, y, derivatives dk)
\* evaluated at q, x[k] <= q <= x[k+1]
Hermite(x, y, dk, k, q) ==
    LET h   == x[k + 1] - x[k]
        t   == Div(q - x[k], h)
        t2  == Mul(t, t)
        t3  == Mul(t2, t)
        h00 == 2 * t3 - 3 * t2 + Scale
        h10 == t3 - 2 * t2 + t
        h01 == 3 * t2 - 2 * t3
        h11 == t3 - t2
        hd0 == Mul(h, dk[k])
        hd1 == Mul(h, dk[k + 1])
    IN  (h00 * y[k] + h10 * hd0 + h01 * y[k + 1] + h11 * hd1) \div Scale

\* pchip(x, y)(q), a float, dk being Derivatives(x, y).  Inside [x[1], x[n]]
\* it is the value of the interpolant.  Outside it the code extrapolates with
\* the end piece; that float is kept unevaluated, as the cubic piece (its two
\* end points, values and derivatives) and the point q, because the cube of
\* (q - x[k]) / h leaves the range of the fixed-point integers.
PchipEval(x, y, dk, q) ==
    LET k == Piece(x, q)
    IN  IF x[1] <= q /\ q <= x[Len(x)]
        THEN [extrapolated |-> FALSE, value |-> Hermite(x, y, dk, k, q),
              piece |-> << >>, at |-> q]
        ELSE [extrapolated |-> TRUE, value |-> 0,
              piece |-> <<x[k], x[k + 1], y[k], y[k + 1], dk[k], dk[k + 1]>>,
              at |-> q]

\* ------------------------------------------------------------ the inputs
\* Temperatures of the observation rows: the whole degrees 0..MaxTemp and
\* two fractional ones inside the first degree.
TempValues == {d * Scale : d \in 0..MaxTemp} \cup {Scale \div 3, (2 * Scale) \div 3}

\* The recoveries (mass % recovered) of the rows of a distillation table, in
\* the table's order, IBP (set to 0) first.  Rows whose temperature is blank
\* are dropped by load_processed_profile: a cleaned profile keeps the
\* first n rows.
RecoveryOfRow(i) ==
    CASE i = 1 -> 0
      [] i = 2 -> 50
      [] i = 3 -> 90
      [] i = 4 -> 95
      [] OTHER -> 99

\* The cleaned profiles the file store may hold for a code: at most MaxRows
\* rows, temperatures ascending.
Profiles ==
    UNION {
      {[i \in 1..n |-> [recovery |-> RecoveryOfRow(i), temperature |-> t[i]]] :
          t \in {u \in [1..n -> TempValues] : StrictlyIncreasing(u)}}
      : n \in 0..MaxRows}

\* Volume shares handed to the constructor.
Volumes == {0, Scale \div 4, (3 * Scale) \div 4, Scale}

\* self.profile_percentages
profile_percentages == <<5, 10, 20, 30, 40, 50, 60, 70, 80, 90, 95, 99>>

\* ------------------------------------------------------------ the builder
\* a faulty variant of InvalidShares: the ends 0 and 1 are let through
InvalidSharesStrict(v1, v2) == v1 < 0 \/ v1 > Scale \/ v2 < 0 \/ v2 > Scale

\* __init__: the condition under which it raises ValueError
InvalidShares(v1, v2) == v1 <= 0 \/ v1 >= Scale \/ v2 <= 0 \/ v2 >= Scale

TempMin(df) == SetMin(Range(Column(df, "temperature")))
TempMax(df) == SetMax(Range(Column(df, "temperature")))

\* a faulty variant of DiscreteBounds: the lower bound rounded down
DiscreteBoundsFloor(profile_df) ==
    <<Floor(TempMin(profile_df)), Floor(TempMax(profile_df))>>

\* the two arguments of np.arange in get_discrete_temperature_range
DiscreteBounds(profile_df) ==
    <<Ceil(TempMin(profile_df)), Floor(TempMax(profile_df))>>

get_discrete_temperature_range(profile_df) ==
    Arange(DiscreteBounds(profile_df)[1], DiscreteBounds(profile_df)[2])

\* the two arguments of np.arange in get_global_temperature_range
GlobalBounds(df1, df2) ==
    LET min_val == SetMin({TempMin(df1), TempMin(df2)})
        max_val == SetMax({TempMax(df1), TempMax(df2)})
    IN  <<Ceil(min_val), Floor(max_val)>>

get_global_temperature_range(df1, df2) ==
    Arange(GlobalBounds(df1, df2)[1], GlobalBounds(df1, df2)[2])

\* get_recovery_interpolation raises: math.ceil(nan) on an empty profile,
\* pchip on fewer than 2 rows or temperatures that do not increase
InterpolationRaises(profile_df) ==
    Len(profile_df) = 0 \/ PchipRaises(Column(profile_df, "temperature"))

get_recovery_interpolation(profile_df) ==
    LET x_values == Column(profile_df, "temperature")
        y_values == [i \in DOMAIN profile_df |-> profile_df[i].recovery * Scale]
        temperature_range == get_discrete_temperature_range(profile_df)
        interpolation_fit == Derivatives(x_values, y_values)
    IN  [temperature |-> temperature_range,
         recovery |-> [i \in DOMAIN temperature_range |->
                          PchipEval(x_values, y_values, interpolation_fit,
                                    temperature_range[i] * Scale).value]]

\* DataFrame.join on the temperature index (a left join): the curve's value
\* at T, NaN where the curve has no row for T
Joined(interp, T) ==
    IF \E j \in DOMAIN interp.temperature : interp.temperature[j] = T
    THEN Num(interp.recovery[CHOOSE j \in DOMAIN interp.temperature :
                                 interp.temperature[j] = T])
    ELSE NaN

\* a faulty variant of Ffill: no fill at all
FfillNone(col) == col

\* a faulty variant of Ffill, fillna(method='bfill'): a NaN takes the next
\* value below it
FfillBackward(col) ==
    LET f[i \in 1..(Len(col) + 1)] ==
            IF i = Len(col) + 1 THEN NaN ELSE IF col[i] # NaN THEN col[i] ELSE f[i + 1]
    IN  [i \in DOMAIN col |-> f[i]]

\* fillna(method='ffill'): a NaN takes the last value above it, if any
Ffill(col) ==
    LET f[i \in 0..Len(col)] ==
            IF i = 0 THEN NaN ELSE IF col[i] # NaN THEN col[i] ELSE f[i - 1]
    IN  [i \in DOMAIN col |-> f[i]]

\* fillna(value=v)
Fillna(col, v) == [i \in DOMAIN col |-> IF col[i] = NaN THEN v ELSE col[i][1]]

merge_interpolations_over_range(interp1, interp2, temperature_range) ==
    [temperature |-> temperature_range,
     recovery    |-> Fillna(Ffill([i \in DOMAIN temperature_range |->
                                      Joined(interp1, temperature_range[i])]), 0),
     recovery_2  |-> Fillna(Ffill([i \in DOMAIN temperature_range |->
                                      Joined(interp2, temperature_range[i])]), 0)]

\* a faulty variant of Blended: share1 applied to both curves
BlendedOneShare(pair_df, share1, share2) ==
    [i \in DOMAIN pair_df.temperature |->
        Mul(share1, pair_df.recovery[i]) + Mul(share1, pair_df.recovery_2[i])]

\* pair_df['blended'] = share1 * pair_df['recovery'] + share2 * pair_df['recovery_2']
Blended(pair_df, share1, share2) ==
    [i \in DOMAIN pair_df.temperature |->
        Mul(share1, pair_df.recovery[i]) + Mul(share2, pair_df.recovery_2[i])]

RecoveryMaxOf(df) == SetMax(Range(Column(df, "recovery")))

\* recovery_max = df1['recovery'].max() * share1 + df2['recovery'].max() * share2
RecoveryMax(share1, share2, df1, df2) ==
    RecoveryMaxOf(df1) * share1 + RecoveryMaxOf(df2) * share2

\* a faulty variant of OverMax: the cap itself counts as over the cap
OverMaxInclusive(recovery, recovery_max) == recovery * Scale >= recovery_max

\* blended_df['recovery'] > recovery_max
OverMax(recovery, recovery_max) == recovery * Scale > recovery_max

\* compute_blended_profile raises when pchip rejects the blended column
BlendRaises(blended) == PchipRaises(blended)

\* compute_blended_profile once pchip has accepted the blended column: the
\* table of the 12 percentiles.  (The code evaluates the interpolant at all of
\* them and then overwrites those over the cap with NaN.)
compute_blended_profile(blended, temperature, share1, share2, df1, df2) ==
    LET recovery_max == RecoveryMax(share1, share2, df1, df2)
        y == [i \in DOMAIN temperature |-> temperature[i] * Scale]
        blended_interp == Derivatives(blended, y)
    IN  [i \in DOMAIN profile_percentages |->
           [recovery |-> profile_percentages[i],
            temperature |->
               IF OverMax(profile_percentages[i], recovery_max) THEN NaN
               ELSE Num(PchipEval(blended, y, blended_interp,
                                  profile_percentages[i] * Scale))]]

\* run as one function of the two loaded profiles and the two shares: the
\* step that raises ("none" if none does) and the table it returns
run(df1, df2, share1, share2) ==
    IF InterpolationRaises(df1) THEN [raised |-> "interp1", blended_df |-> << >>]
    ELSE IF InterpolationRaises(df2) THEN [raised |-> "interp2", blended_df |-> << >>]
    ELSE
      LET pair_df == merge_interpolations_over_range(
                         get_recovery_interpolation(df1),
                         get_recovery_interpolation(df2),
                         get_global_temperature_range(df1, df2))
          blended == Blended(pair_df, share1, share2)
      IN  IF BlendRaises(blended) THEN [raised |-> "blend", blended_df |-> << >>]
          ELSE [raised |-> "none",
                blended_df |-> compute_blended_profile(blended, pair_df.temperature,
                                                       share1, share2, df1, df2)]

\* ------------------------------------------------------------- the state
VARIABLES
    pc,              \* position of the program
    raised,          \* the step whose exception ended the program, or "none"
    volume1, volume2,            \* constructor arguments / self.volume1, self.volume2
    profile1_df, profile2_df,    \* run's locals
    recovery1, recovery2,
    global_range,
    paired_recovery,             \* with its 'blended' column once computed
    blended_df,                  \* run's return value
    entry,           \* the prompt loop: the five entries of this iteration
    input_share1, input_share2, input_update

builder == <<volume1, volume2, profile1_df, profile2_df, recovery1, recovery2,
             global_range, paired_recovery, blended_df>>
prompt == <<entry, input_share1, input_share2, input_update>>
vars == <<pc, raised, builder, prompt>>

NoFrame == [temperature |-> << >>, recovery |-> << >>]
NoPair == [temperature |-> << >>, recovery |-> << >>, recovery_2 |-> << >>,
           blended |-> << >>]
NoEntry == [code1 |-> "", code2 |-> "", volume1 |-> "", volume2 |-> "", update |-> ""]

Unset ==
    /\ profile1_df = << >> /\ profile2_df = << >>
    /\ recovery1 = NoFrame /\ recovery2 = NoFrame
    /\ global_range = << >>
    /\ paired_recovery = NoPair
    /\ blended_df = << >>

\* A caller (the tests, the generation script) constructs the builder with
\* shares of its choice.
Init ==
    /\ pc = "new" /\ raised = "none"
    /\ volume1 \in Volumes /\ volume2 \in Volumes
    /\ Unset
    /\ entry = NoEntry /\ input_share1 = 0 /\ input_share2 = 0 /\ input_update = FALSE

\* BlendedProfileBuilder.__init__
Construct ==
    /\ pc = "new"
    /\ IF InvalidShares(volume1, volume2)
       THEN pc' = "error" /\ raised' = "init"
       ELSE pc' = "load1" /\ raised' = raised
    /\ UNCHANGED <<builder, prompt>>

\* run: profile1_df = self.load_processed_profile(self.code1)
LoadProfile1 ==
    /\ pc = "load1"
    /\ profile1_df' \in Profiles
    /\ pc' = "load2"
    /\ UNCHANGED <<raised, volume1, volume2, profile2_df, recovery1, recovery2,
                   global_range, paired_recovery, blended_df, prompt>>

\* run: profile2_df = self.load_processed_profile(self.code2)
LoadProfile2 ==
    /\ pc = "load2"
    /\ profile2_df' \in Profiles
    /\ pc' = "interp1"
    /\ UNCHANGED <<raised, volume1, volume2, profile1_df, recovery1, recovery2,
                   global_range, paired_recovery, blended_df, prompt>>

\* run: recovery1 = self.get_recovery_interpolation(profile1_df)
Interpolate1 ==
    /\ pc = "interp1"
    /\ IF InterpolationRaises(profile1_df)
       THEN pc' = "error" /\ raised' = "interp1" /\ recovery1' = recovery1
       ELSE /\ pc' = "interp2" /\ raised' = raised
            /\ recovery1' = get_recovery_interpolation(profile1_df)
    /\ UNCHANGED <<volume1, volume2, profile1_df, profile2_df, recovery2,
                   global_range, paired_recovery, blended_df, prompt>>

\* run: recovery2 = self.get_recovery_interpolation(profile2_df)
Interpolate2 ==
    /\ pc = "interp2"
    /\ IF InterpolationRaises(profile2_df)
       THEN pc' = "error" /\ raised' = "interp2" /\ recovery2' = recovery2
       ELSE /\ pc' = "range" /\ raised' = raised
            /\ recovery2' = get_recovery_interpolation(profile2_df)
    /\ UNCHANGED <<volume1, volume2, profile1_df, profile2_df, recovery1,
                   global_range, paired_recovery, blended_df, prompt>>

\* run: global_range = self.get_global_temperature_range(profile1_df, profile2_df)
GlobalRange ==
    /\ pc = "range"
    /\ global_range' = get_global_temperature_range(profile1_df, profile2_df)
    /\ pc' = "merge"
    /\ UNCHANGED <<raised, volume1, volume2, profile1_df, profile2_df, recovery1,
                   recovery2, paired_recovery, blended_df, prompt>>

\* run: paired_recovery = self.merge_interpolations_over_range(...)
Merge ==
    /\ pc = "merge"
    /\ LET merged_df == merge_interpolations_over_range(recovery1, recovery2,
                                                         global_range)
       IN  paired_recovery' = [temperature |-> merged_df.temperature,
                               recovery    |-> merged_df.recovery,
                               recovery_2  |-> merged_df.recovery_2,
                               blended     |-> << >>]
    /\ pc' = "blend"
    /\ UNCHANGED <<raised, volume1, volume2, profile1_df, profile2_df, recovery1,
                   recovery2, global_range, blended_df, prompt>>

\* run: blended_df = self.compute_blended_profile(...); return blended_df
ComputeBlended ==
    /\ pc = "blend"
    /\ LET blended == Blended(paired_recovery, volume1, volume2)
       IN  /\ paired_recovery' = [paired_recovery EXCEPT !.blended = blended]
           /\ IF BlendRaises(blended)
              THEN pc' = "error" /\ raised' = "blend" /\ blended_df' = blended_df
              ELSE /\ pc' = "done" /\ raised' = raised
                   /\ blended_df' = compute_blended_profile(blended,
                          paired_recovery.temperature, volume1, volume2,
                          profile1_df, profile2_df)
    /\ UNCHANGED <<volume1, volume2, profile1_df, profile2_df, recovery1,
                   recovery2, global_range, prompt>>

\* ------------------------------------------------- __main__: the prompt loop
\* valid_oil_codes: the codes with rows in data/oil-profiles.csv
valid_oil_codes == {"AHS", "AWB"}

\* What the user may type at the five prompts.
CodeEntries == {"AHS", "awb", "XYZ"}
VolumeEntries == {"abc", "-1", "0", "1", "3"}
UpdateEntries == {"Y", "no", "", "maybe"}

Entries == [code1 : CodeEntries, code2 : CodeEntries,
            volume1 : VolumeEntries, volume2 : VolumeEntries,
            update : UpdateEntries]

\* str.upper() of a code entry
Upper(s) == IF s = "awb" THEN "AWB" ELSE s

\* input().upper() of the update entry, then its first character ("" if none)
UpperFirst(s) ==
    CASE s = "Y"     -> "Y"
      [] s = "no"    -> "N"
      [] s = "maybe" -> "M"
      [] OTHER       -> ""

\* float(s) raises ValueError
FloatRaises(s) == s \notin {"-1", "0", "1", "3"}

\* float(s)
Float(s) ==
    CASE s = "-1" -> -Scale
      [] s = "0"  -> 0
      [] s = "1"  -> Scale
      [] s = "3"  -> 3 * Scale

\* a / b for floats of either sign, b # 0
FloatDiv(a, b) == IF b < 0 THEN Div(-a, -b) ELSE Div(a, b)

\* the five input() calls of one iteration
ReadEntries ==
    /\ pc = "prompt"
    /\ entry' \in Entries
    /\ pc' = "codes"
    /\ UNCHANGED <<raised, builder, input_share1, input_share2, input_update>>

\* if input_code1 not in valid_oil_codes or input_code2 not in valid_oil_codes
CheckCodes ==
    /\ pc = "codes"
    /\ IF Upper(entry.code1) \notin valid_oil_codes
            \/ Upper(entry.code2) \notin valid_oil_codes
       THEN pc' = "prompt"
       ELSE pc' = "volumes"
    /\ UNCHANGED <<raised, builder, prompt>>

\* the try block: float() of both volumes, the total and the two shares;
\* ValueError is caught, ZeroDivisionError is not
ParseVolumes ==
    /\ pc = "volumes"
    /\ IF FloatRaises(entry.volume1) \/ FloatRaises(entry.volume2)
       THEN pc' = "prompt" /\ UNCHANGED <<raised, input_share1, input_share2>>
       ELSE LET input_volume1 == Float(entry.volume1)
                input_volume2 == Float(entry.volume2)
                total_volume == input_volume1 + input_volume2
            IN  IF total_volume = 0
                THEN /\ pc' = "error" /\ raised' = "ZeroDivisionError"
                     /\ UNCHANGED <<input_share1, input_share2>>
                ELSE /\ pc' = "update" /\ raised' = raised
                     /\ input_share1' = FloatDiv(input_volume1, total_volume)
                     /\ input_share2' = FloatDiv(input_volume2, total_volume)
    /\ UNCHANGED <<builder, entry, input_update>>

\* if len(input_update) > 0 and input_update[0] in ['Y','N']
CheckUpdate ==
    /\ pc = "update"
    /\ IF UpperFirst(entry.update) \in {"Y", "N"}
       THEN pc' = "break" /\ input_update' = (UpperFirst(entry.update) = "Y")
       ELSE pc' = "prompt" /\ input_update' = input_update
    /\ UNCHANGED <<raised, builder, entry, input_share1, input_share2>>

\* builder = BlendedProfileBuilder(input_code1, input_code2, input_share1,
\*                                 input_share2, input_update)
BuildFromPrompt ==
    /\ pc = "break"
    /\ volume1' = input_share1 /\ volume2' = input_share2
    /\ IF InvalidShares(input_share1, input_share2)
       THEN pc' = "error" /\ raised' = "init"
       ELSE pc' = "load1" /\ raised' = raised
    /\ UNCHANGED <<profile1_df, profile2_df, recovery1, recovery2, global_range,
                   paired_recovery, blended_df, prompt>>

InitMain ==
    /\ pc = "prompt" /\ raised = "none"
    /\ volume1 = 0 /\ volume2 = 0
    /\ Unset
    /\ entry = NoEntry /\ input_share1 = 0 /\ input_share2 = 0 /\ input_update = FALSE

NextMain ==
    \/ ReadEntries
    \/ CheckCodes
    \/ ParseVolumes
    \/ CheckUpdate
    \/ BuildFromPrompt

\* The command-line program up to the construction of the builder.
SpecMain == InitMain /\ [][NextMain]_vars

Next ==
    \/ Construct
    \/ LoadProfile1
    \/ LoadProfile2
    \/ Interpolate1
    \/ Interpolate2
    \/ GlobalRange
    \/ Merge
    \/ ComputeBlended

Spec == Init /\ [][Next]_vars

\* ------------------------------------------------------------------ claims
\* positions of run: both profiles loaded; the table computed or refused
Loaded1 == pc \notin {"new", "load1"} /\ raised # "init"
Loaded2 == Loaded1 /\ pc # "load2"
Computed == pc = "done" \/ raised = "blend"

\* the largest recovery of a loaded profile
MaxObserved(df) == SetMax({df[i].recovery : i \in DOMAIN df})

\* T is a native sample point of the curve
HasSample(interp, T) == \E k \in DOMAIN interp.temperature : interp.temperature[k] = T
SampleAt(interp, T) ==
    interp.recovery[CHOOSE k \in DOMAIN interp.temperature : interp.temperature[k] = T]

\* C1: in the table compute_blended_profile returns, the temperature of
\* percentile p is NaN exactly when p > max1 * share1 + max2 * share2; every
\* other percentile carries a number.
C1_UndefinedIffOverMax ==
    pc = "done" =>
      /\ Len(blended_df) = Len(profile_percentages)
      /\ \A i \in DOMAIN blended_df :
           LET p == blended_df[i].recovery
               cap == MaxObserved(profile1_df) * volume1
                        + MaxObserved(profile2_df) * volume2
           IN  /\ (blended_df[i].temperature = NaN) <=> (p * Scale > cap)
               /\ (p * Scale <= cap) => Len(blended_df[i].temperature) = 1

\* a percentile equal to the cap is reported, larger ones are NaN
C1_Witness ==
    /\ pc = "done"
    /\ \E i \in DOMAIN blended_df :
          /\ blended_df[i].recovery * Scale =
                MaxObserved(profile1_df) * volume1 + MaxObserved(profile2_df) * volume2
          /\ blended_df[i].temperature # NaN
    /\ \E i \in DOMAIN blended_df : blended_df[i].temperature = NaN

\* the aligned column of one curve over the grid: the native sample where
\* there is one, else the value at the nearest earlier grid point that has
\* one, else 0
AlignedAsClaimed(interp, aligned, grid) ==
    /\ Len(aligned) = Len(grid)
    /\ \A i \in DOMAIN grid :
         LET earlier == {j \in 1..i : HasSample(interp, grid[j])}
         IN  IF HasSample(interp, grid[i]) THEN aligned[i] = SampleAt(interp, grid[i])
             ELSE IF earlier # {}
                  THEN aligned[i] = SampleAt(interp, grid[SetMax(earlier)])
                  ELSE aligned[i] = 0

\* C2: merge_interpolations_over_range returns one row per grid point, and
\* each curve's column holds the native sample, else the forward-filled
\* earlier sample, else 0 before the curve's first sample.
C2_MergeForwardFill ==
    pc = "blend" =>
      /\ paired_recovery.temperature = global_range
      /\ AlignedAsClaimed(recovery1, paired_recovery.recovery, global_range)
      /\ AlignedAsClaimed(recovery2, paired_recovery.recovery_2, global_range)

\* one curve is zero-filled at the head, the other forward-filled (with a
\* positive value) at the tail
C2_Witness ==
    /\ pc = "blend"
    /\ Len(global_range) >= 3
    /\ ~HasSample(recovery2, global_range[1])
    /\ HasSample(recovery2, global_range[Len(global_range)])
    /\ ~HasSample(recovery1, global_range[Len(global_range)])
    /\ paired_recovery.recovery[Len(global_range)] > 0
    /\ paired_recovery.recovery_2[1] = 0

\* C3: the constructor raises, with nothing loaded or computed, exactly
\* when a share is <= 0 or >= 1; any two shares inside (0,1) are accepted,
\* whatever their sum.
C3_ShareValidation ==
    pc # "new" =>
      /\ (raised = "init") <=>
            ~(0 < volume1 /\ volume1 < Scale /\ 0 < volume2 /\ volume2 < Scale)
      /\ raised = "init" => (pc = "error" /\ Unset)

C3_Witness == pc = "load1" /\ volume1 + volume2 # Scale

\* the observation set has two or more rows with distinct temperatures
TwoPoints(df) == Len(df) >= 2 /\ TempMin(df) < TempMax(df)

\* a whole number lies in [lo, hi]
HoldsInteger(lo, hi) == \E d \in -1..(MaxTemp + 1) : lo <= d * Scale /\ d * Scale <= hi

\* C4 as stated: for a set of two or more points the grid bounds satisfy
\* ceil(min) <= floor(max), and so do the joint bounds of two such sets.
C4_BoundsOrdered ==
    /\ (Loaded1 /\ TwoPoints(profile1_df)) =>
          DiscreteBounds(profile1_df)[1] <= DiscreteBounds(profile1_df)[2]
    /\ (Loaded2 /\ TwoPoints(profile1_df) /\ TwoPoints(profile2_df)) =>
          GlobalBounds(profile1_df, profile2_df)[1]
             <= GlobalBounds(profile1_df, profile2_df)[2]

BoundsAmended(b, lo, hi) ==
    /\ b[1] <= b[2] + 1
    /\ (b[1] <= b[2]) <=> HoldsInteger(lo, hi)

\* C4 amended: ceil(min) <= floor(max) + 1, and ceil(min) <= floor(max)
\* exactly when a whole number lies in [min, max]; likewise for the joint
\* bounds.
C4_BoundsOrderedIffInteger ==
    /\ (Loaded1 /\ TwoPoints(profile1_df)) =>
          BoundsAmended(DiscreteBounds(profile1_df),
                        TempMin(profile1_df), TempMax(profile1_df))
    /\ (Loaded2 /\ TwoPoints(profile1_df) /\ TwoPoints(profile2_df)) =>
          BoundsAmended(GlobalBounds(profile1_df, profile2_df),
                        SetMin({TempMin(profile1_df), TempMin(profile2_df)}),
                        SetMax({TempMax(profile1_df), TempMax(profile2_df)}))

\* both sets lie strictly inside one degree: the lower bound is above the
\* upper one, for each set and for the pair
C4_Witness ==
    /\ pc = "interp1"
    /\ TwoPoints(profile1_df) /\ TwoPoints(profile2_df)
    /\ DiscreteBounds(profile1_df)[1] = DiscreteBounds(profile1_df)[2] + 1
    /\ GlobalBounds(profile1_df, profile2_df)[1]
          = GlobalBounds(profile1_df, profile2_df)[2] + 1

\* C5: swapping the two liquids together with their shares leaves the
\* result of run unchanged (the same table row for row, or an error in both
\* cases), and the rows are in the order 5,10,20,...,95,99.
C5_SwapSymmetric ==
    LET swapped == run(profile2_df, profile1_df, volume2, volume1)
    IN  /\ pc = "done" =>
             /\ swapped.raised = "none"
             /\ swapped.blended_df = blended_df
             /\ Column(blended_df, "recovery")
                   = <<5, 10, 20, 30, 40, 50, 60, 70, 80, 90, 95, 99>>
        /\ (pc = "error" /\ raised # "init") => swapped.raised # "none"

\* two different liquids with different shares, some rows defined
C5_Witness ==
    /\ pc = "done"
    /\ profile1_df # profile2_df
    /\ volume1 # volume2
    /\ paired_recovery.recovery # paired_recovery.recovery_2
    /\ \E i \in DOMAIN blended_df : blended_df[i].temperature # NaN

NonDecreasing(s) == \A i \in 1..(Len(s) - 1) : s[i] <= s[i + 1]
NonNegative(s) == \A i \in DOMAIN s : s[i] >= 0

\* C6: when both native curves are nondecreasing and nonnegative, the
\* blended column is nondecreasing over the whole joint grid.
C6_BlendedNonDecreasing ==
    (/\ Computed
     /\ NonDecreasing(recovery1.recovery) /\ NonNegative(recovery1.recovery)
     /\ NonDecreasing(recovery2.recovery) /\ NonNegative(recovery2.recovery))
      => NonDecreasing(paired_recovery.blended)

\* a blend with a zero-filled head of one curve and a forward-filled tail
\* of the other
C6_Witness ==
    /\ Computed
    /\ Len(global_range) >= 3
    /\ NonDecreasing(recovery1.recovery) /\ NonNegative(recovery1.recovery)
    /\ NonDecreasing(recovery2.recovery) /\ NonNegative(recovery2.recovery)
    /\ ~HasSample(recovery1, global_range[1])
    /\ ~HasSample(recovery2, global_range[Len(global_range)])
    /\ \E i \in DOMAIN recovery2.recovery : recovery2.recovery[i] > 0
    /\ paired_recovery.blended[1] < paired_recovery.blended[Len(global_range)]

\* C7: a liquid with fewer than 2 rows ends run with an error raised by its
\* curve fit, and no table is returned.
C7_TooFewRowsRaises ==
    /\ (Loaded2 /\ pc # "interp1" /\ Len(profile1_df) < 2) =>
          (pc = "error" /\ raised = "interp1" /\ blended_df = << >>)
    /\ (Loaded2 /\ pc \notin {"interp1", "interp2"} /\ Len(profile2_df) < 2) =>
          (pc = "error" /\ raised \in {"interp1", "interp2"} /\ blended_df = << >>)

\* the second liquid has one row and its fit raised
C7_Witness ==
    /\ pc = "error" /\ raised = "interp2"
    /\ Len(profile1_df) >= 2 /\ Len(profile2_df) = 1

\* the fitter's preconditions: at least 2 rows, ascending temperatures,
\* strictly increasing recoveries
FitPreconditions(df) ==
    /\ Len(df) >= 2
    /\ StrictlyIncreasing(Column(df, "temperature"))
    /\ StrictlyIncreasing(Column(df, "recovery"))

\* C8 as stated: for two sets that meet the fitter's preconditions the
\* blended column is strictly increasing with at least 2 grid points, and
\* run returns the 12-row table.
C8_BlendStrictlyIncreasing ==
    (/\ pc \in {"done", "error"}
     /\ raised \notin {"init", "interp1", "interp2"}
     /\ FitPreconditions(profile1_df) /\ FitPreconditions(profile2_df))
      => /\ Len(paired_recovery.blended) >= 2
         /\ StrictlyIncreasing(paired_recovery.blended)
         /\ pc = "done"
         /\ Len(blended_df) = 12

\* C9 as stated: every percentile reported with a temperature lies between
\* the blended value at the first grid point and that at the last one.
C9_DefinedWithinGrid ==
    pc = "done" =>
      \A i \in DOMAIN blended_df :
         blended_df[i].temperature # NaN =>
            /\ paired_recovery.blended[1] <= blended_df[i].recovery * Scale
            /\ blended_df[i].recovery * Scale
                  <= paired_recovery.blended[Len(paired_recovery.blended)]

\* C10 as stated: the loop is left only with two valid codes, a Y/N answer
\* and two shares inside (0,1) that sum to 1; every other entry re-prompts,
\* and the builder constructed after the loop never fails share validation.
C10_LoopLeavesValidShares ==
    /\ pc = "break" =>
         /\ Upper(entry.code1) \in valid_oil_codes
         /\ Upper(entry.code2) \in valid_oil_codes
         /\ UpperFirst(entry.update) \in {"Y", "N"}
         /\ 0 < input_share1 /\ input_share1 < Scale
         /\ 0 < input_share2 /\ input_share2 < Scale
         /\ input_share1 + input_share2 = Scale
    /\ raised = "none"
=============================================================================
